---- MODULE Spec2Model ----
(***************************************************************************)
(* Model of the two Babylon.js scene components of archery-web:            *)
(*   src/app/babylon/AssetTestScene.tsx   (sceneKind = "AssetTest")        *)
(*   src/app/babylon/ArcheryGameScene.tsx (sceneKind = "Game")             *)
(* Both mount an engine, issue one loadAsset task per asset, join them     *)
(* with Promise.all, and unsubscribe/dispose on teardown.                  *)
(*                                                                         *)
(* Numbers are exact rationals [n, d] in lowest terms with d > 0; d = 0    *)
(* encodes the IEEE results of a division by zero (n = 1: Infinity,        *)
(* n = -1: -Infinity, n = 0: NaN).  Rotations are opaque labels.           *)
(***************************************************************************)
EXTENDS Integers, Sequences, FiniteSets, TLC

\* ----------------------------------------------------------------- bounds
MaxResize == 2
MaxPriorScale == 2

\* ------------------------------------------------------------- arithmetic
Abs(x) == IF x < 0 THEN -x ELSE x

Sign(x) == IF x < 0 THEN -1 ELSE IF x > 0 THEN 1 ELSE 0

RECURSIVE Gcd(_, _)
Gcd(a, b) == IF b = 0 THEN a ELSE Gcd(b, a % b)

\* Evaluates x once and hands its value to F (JavaScript is call-by-value).
Bind(x, F(_)) == CHOOSE r \in { F(v) : v \in {x} } : TRUE

Norm(n, d) ==
    IF d = 0 THEN [n |-> Sign(n), d |-> 0]
    ELSE Bind(Gcd(Abs(n), Abs(d)),
              LAMBDA g : [n |-> Sign(d) * (n \div g), d |-> Abs(d) \div g])

Q(n, d) == Bind(n, LAMBDA x : Bind(d, LAMBDA y : Norm(x, y)))

Bind2(a, b, F(_, _)) == Bind(a, LAMBDA x : Bind(b, LAMBDA y : F(x, y)))

Int2Q(i) == [n |-> i, d |-> 1]

RAdd(a, b) == Bind2(a, b, LAMBDA x, y : Q(x.n * y.d + y.n * x.d, x.d * y.d))
RSub(a, b) == Bind2(a, b, LAMBDA x, y : Q(x.n * y.d - y.n * x.d, x.d * y.d))
RMul(a, b) == Bind2(a, b, LAMBDA x, y : Q(x.n * y.n, x.d * y.d))
RDiv(a, b) == Bind2(a, b, LAMBDA x, y : Q(x.n * y.d, x.d * y.n))
RLess(a, b) == Bind2(a, b, LAMBDA x, y : x.n * y.d < y.n * x.d)
RMin(a, b) == Bind2(a, b, LAMBDA x, y : IF RLess(y, x) THEN y ELSE x)
RMax(a, b) == Bind2(a, b, LAMBDA x, y : IF RLess(x, y) THEN y ELSE x)
RAbs(a) == Bind(a, LAMBDA x : [n |-> Abs(x.n), d |-> x.d])
IsFinite(a) == a.d # 0

\* ---------------------------------------------------------------- Vector3
V3(x, y, z) == <<x, y, z>>
V3i(x, y, z) == <<Int2Q(x), Int2Q(y), Int2Q(z)>>
Zero == V3i(0, 0, 0)
One == V3i(1, 1, 1)
Minimize(a, b) ==
    Bind2(a, b, LAMBDA x, y : <<RMin(x[1], y[1]), RMin(x[2], y[2]), RMin(x[3], y[3])>>)
Maximize(a, b) ==
    Bind2(a, b, LAMBDA x, y : <<RMax(x[1], y[1]), RMax(x[2], y[2]), RMax(x[3], y[3])>>)
Subtract(a, b) ==
    Bind2(a, b, LAMBDA x, y : <<RSub(x[1], y[1]), RSub(x[2], y[2]), RSub(x[3], y[3])>>)
VAdd(a, b) ==
    Bind2(a, b, LAMBDA x, y : <<RAdd(x[1], y[1]), RAdd(x[2], y[2]), RAdd(x[3], y[3])>>)
VMul(a, b) ==
    Bind2(a, b, LAMBDA x, y : <<RMul(x[1], y[1]), RMul(x[2], y[2]), RMul(x[3], y[3])>>)
MathMax3(a, b, c) == RMax(RMax(a, b), c)

\* ------------------------------------------------------------ scene nodes
\* A node of the scene graph as the loader leaves it.  parent = 0 is null.
\* bmin/bmax is the local bounding box of a mesh's geometry.
MeshKinds == {"Mesh", "InstancedMesh"}
ParentKinds == {"TransformNode", "Camera", "Light", "Node"}

\* m instanceof Mesh
IsMesh(node) == node.kind = "Mesh"

\* 'scaling' in parent, 'position' in parent, 'rotation' in parent
HasScaling(node) == node.kind \in {"Mesh", "InstancedMesh", "TransformNode"}
HasPosition(node) == node.kind \in {"Mesh", "InstancedMesh", "TransformNode", "Camera", "Light"}
HasRotation(node) == node.kind \in {"Mesh", "InstancedMesh", "TransformNode", "Camera"}

MkNode(kind, parent, bmin, bmax, scaling, position) ==
    [kind |-> kind, parent |-> parent, bmin |-> bmin, bmax |-> bmax,
     scaling |-> scaling, position |-> position, rotation |-> "identity"]

\* A point/box given in the frame of node id, carried up to world space
\* through the scaling and position of id and of each ancestor.
RECURSIVE ToWorld(_, _, _)
ToWorld(nodes, id, p) ==
    Bind(VAdd(VMul(nodes[id].scaling, p), nodes[id].position),
         LAMBDA q : IF nodes[id].parent = 0 THEN q
                    ELSE ToWorld(nodes, nodes[id].parent, q))

\* mesh.getBoundingInfo().boundingBox.minimumWorld / maximumWorld
minimumWorld(nodes, id) == ToWorld(nodes, id, nodes[id].bmin)
maximumWorld(nodes, id) == ToWorld(nodes, id, nodes[id].bmax)

\* ---------------------------------------------------------- getBoundingBox
NoBox == [isNull |-> TRUE, min |-> Zero, max |-> Zero, size |-> Zero]

RECURSIVE ForEachMesh(_, _, _, _)
ForEachMesh(nodes, meshes, k, acc) ==
    IF k > Len(meshes) THEN acc
    ELSE Bind(IF IsMesh(nodes[meshes[k]])
              THEN [min |-> Minimize(acc.min, minimumWorld(nodes, meshes[k])),
                    max |-> Maximize(acc.max, maximumWorld(nodes, meshes[k]))]
              ELSE acc,
              LAMBDA nxt : ForEachMesh(nodes, meshes, k + 1, nxt))

\* Variant that never folds the later meshes in.
getBoundingBoxFirstOnly(nodes, meshes) ==
    IF Len(meshes) = 0 THEN NoBox
    ELSE [isNull |-> FALSE,
          min |-> minimumWorld(nodes, meshes[1]),
          max |-> maximumWorld(nodes, meshes[1]),
          size |-> Subtract(maximumWorld(nodes, meshes[1]), minimumWorld(nodes, meshes[1]))]

getBoundingBox(nodes, meshes) ==
    IF Len(meshes) = 0 THEN NoBox
    ELSE Bind([min |-> minimumWorld(nodes, meshes[1]),
               max |-> maximumWorld(nodes, meshes[1])],
              LAMBDA first :
                Bind(ForEachMesh(nodes, meshes, 1, first),
                     LAMBDA r : [isNull |-> FALSE, min |-> r.min, max |-> r.max,
                                 size |-> Subtract(r.max, r.min)]))

\* ---------------------------------------------------------------- loadAsset
\* result.meshes.filter(m => m instanceof Mesh)
FilterMeshes(nodes, resultMeshes) ==
    SelectSeq(resultMeshes, LAMBDA id : IsMesh(nodes[id]))

RECURSIVE FindNoParent(_, _, _)
FindNoParent(nodes, resultMeshes, k) ==
    IF k > Len(resultMeshes) THEN 0
    ELSE IF nodes[resultMeshes[k]].parent = 0 THEN resultMeshes[k]
    ELSE FindNoParent(nodes, resultMeshes, k + 1)

\* Variant that always takes the first node.
rootMeshFirst(nodes, resultMeshes) == resultMeshes[1]

\* result.meshes.find(mesh => !mesh.parent) || result.meshes[0]
rootMesh(nodes, resultMeshes) ==
    LET f == FindNoParent(nodes, resultMeshes, 1)
    IN IF f # 0 THEN f ELSE resultMeshes[1]

currentSize(bb) ==
    Bind(bb.size, LAMBDA size : MathMax3(RAbs(size[1]), RAbs(size[2]), RAbs(size[3])))

\* Variant with the quotient inverted.
scaleFactorInverted(targetSize, bb) == RDiv(currentSize(bb), targetSize)

scaleFactor(targetSize, bb) == RDiv(targetSize, currentSize(bb))

Wr(node, prop, val) == [node |-> node, prop |-> prop, val |-> val]

\* rootMesh.parent && 'scaling' in rootMesh.parent
ScaleTarget(nodes, root) ==
    IF nodes[root].parent # 0 /\ HasScaling(nodes[nodes[root].parent])
    THEN nodes[root].parent ELSE root

ScaleWrites(nodes, root, targetSize, bb) ==
    IF bb.isNull THEN <<>>
    ELSE Bind(scaleFactor(targetSize, bb),
              LAMBDA f : <<Wr(ScaleTarget(nodes, root), "scaling", V3(f, f, f))>>)

\* AssetTestScene: position the root, then move the position to the parent
PositionWritesAssetTest(nodes, root, position) ==
    <<Wr(root, "position", position)>> \o
    (IF nodes[root].parent # 0 /\ HasPosition(nodes[nodes[root].parent])
     THEN <<Wr(nodes[root].parent, "position", position),
            Wr(root, "position", Zero)>>
     ELSE <<>>)

\* ArcheryGameScene: position and rotate the parent or else the root
PositionWritesGame(nodes, root, position, rotation) ==
    IF nodes[root].parent # 0 /\ HasPosition(nodes[nodes[root].parent])
    THEN <<Wr(nodes[root].parent, "position", position)>> \o
         (IF HasRotation(nodes[nodes[root].parent])
          THEN <<Wr(nodes[root].parent, "rotation", rotation)>> ELSE <<>>) \o
         <<Wr(root, "position", Zero)>>
    ELSE <<Wr(root, "position", position), Wr(root, "rotation", rotation)>>

\* Variant without the early return on an empty filtered list.
PlacementWritesNoMeshCheck(kind, req, nodes, resultMeshes) ==
    IF Len(resultMeshes) = 0 THEN <<>>
    ELSE Bind2(FilterMeshes(nodes, resultMeshes), rootMesh(nodes, resultMeshes),
               LAMBDA meshes, root :
                 Bind(getBoundingBox(nodes, meshes),
                      LAMBDA bb : ScaleWrites(nodes, root, req.targetSize, bb)) \o
                 (IF kind = "AssetTest"
                  THEN PositionWritesAssetTest(nodes, root, req.position)
                  ELSE PositionWritesGame(nodes, root, req.position, req.rotation)))

\* The property assignments loadAsset makes, in program order, once the
\* loader has returned resultMeshes (<<>> when it writes nothing).
PlacementWrites(kind, req, nodes, resultMeshes) ==
    IF Len(resultMeshes) = 0 THEN <<>>
    ELSE Bind2(FilterMeshes(nodes, resultMeshes), rootMesh(nodes, resultMeshes),
               LAMBDA meshes, root :
                 IF Len(meshes) = 0 THEN <<>>
                 ELSE Bind(getBoundingBox(nodes, meshes),
                           LAMBDA bb : ScaleWrites(nodes, root, req.targetSize, bb)) \o
                      (IF kind = "AssetTest"
                       THEN PositionWritesAssetTest(nodes, root, req.position)
                       ELSE PositionWritesGame(nodes, root, req.position, req.rotation)))

\* Variant that puts the new name in front: [name, ...prev].
AppendNamePrepend(list, name, placed) == IF placed THEN <<name>> \o list ELSE list

\* Variant with the append outside the placement branch.
AppendNameAlways(list, name, placed) == Append(list, name)

\* setLoadedAssets(prev => [...prev, name]), reached only after a placement
AppendName(list, name, placed) == IF placed THEN Append(list, name) ELSE list

\* Variant that gives up on an asset whose bounding box has no extent.
PlacedPositiveSize(nodes, resultMeshes) ==
    /\ Len(resultMeshes) > 0 /\ Len(FilterMeshes(nodes, resultMeshes)) > 0
    /\ RLess(Int2Q(0), currentSize(getBoundingBox(nodes, FilterMeshes(nodes, resultMeshes))))

\* Whether loadAsset reaches the end of its placement branch
Placed(nodes, resultMeshes) ==
    Len(resultMeshes) > 0 /\ Len(FilterMeshes(nodes, resultMeshes)) > 0

ApplyWrite(nodes, w) ==
    [nodes EXCEPT ![w.node] =
        IF w.prop = "scaling" THEN [@ EXCEPT !.scaling = w.val]
        ELSE IF w.prop = "position" THEN [@ EXCEPT !.position = w.val]
        ELSE [@ EXCEPT !.rotation = w.val]]

RECURSIVE ApplyWrites(_, _)
ApplyWrites(nodes, ws) ==
    IF ws = <<>> THEN nodes
    ELSE Bind(ApplyWrite(nodes, Head(ws)), LAMBDA ns : ApplyWrites(ns, Tail(ws)))

\* --------------------------------------------------------- promise outcomes
\* Variant without the catch: the loader's rejection propagates.
TaskOutcomeNoCatch(loaderState) ==
    IF loaderState = "rejected" THEN "rejected" ELSE "fulfilled"

\* loadAsset wraps its whole body in try/catch: a rejected loader promise is
\* logged and the task's own promise still fulfils.
TaskOutcome(loaderState) == "fulfilled"

\* Variant that waits for the first task only.
PromiseFirstFulfilled(t) == t[1] = "fulfilled"

\* Variant that fulfils as soon as one task has fulfilled.
PromiseAnyFulfilled(t) == \E i \in DOMAIN t : t[i] = "fulfilled"

\* Promise.all(tasks) fulfils once every task promise has fulfilled.
PromiseAllFulfilled(t) == \A i \in DOMAIN t : t[i] = "fulfilled"

\* Variant whose cleanup leaves the listener subscribed.
CleanupKeepsListener == TRUE

\* The cleanup calls window.removeEventListener('resize', handleResize).
CleanupListening == FALSE

\* ------------------------------------------------------------ model files
\* What the external loader finds behind a request: an error, or a list of
\* imported nodes and the result.meshes list.
Box(a, b) == [min |-> a, max |-> b]
ZeroBox == Box(Zero, Zero)
Boxes ==
    { Box(V3i(-1, 0, -1), V3i(1, 2, 1)),
      Box(Zero, V3(Q(1, 2), Q(1, 10), Q(1, 2))),
      Box(V3i(0, -1, 1), V3i(1, 1, 4)),
      ZeroBox }
PriorScales == { V3i(k, k, k) : k \in 1..MaxPriorScale }
PriorPositions == { Zero, V3i(1, 0, -2) }

NodeOptions(kind, parent) ==
    { MkNode(kind, parent, b.min, b.max, s, p) :
        b \in (IF kind \in MeshKinds THEN Boxes ELSE {ZeroBox}),
        s \in (IF kind \in {"Mesh", "TransformNode"} THEN PriorScales ELSE {One}),
        p \in (IF kind \in {"TransformNode", "Light"} THEN PriorPositions ELSE {Zero}) }

Topo(n, m) == [n |-> n, meshes |-> m]
Topologies ==
    { Topo(<<>>, <<>>),
      Topo(<< <<"InstancedMesh", 0>> >>, <<1>>),
      Topo(<< <<"Mesh", 0>> >>, <<1>>),
      Topo(<< <<"TransformNode", 0>>, <<"Mesh", 1>> >>, <<2>>),
      Topo(<< <<"Light", 0>>, <<"Mesh", 1>> >>, <<2>>),
      Topo(<< <<"Camera", 0>>, <<"Mesh", 1>> >>, <<2>>),
      Topo(<< <<"Node", 0>>, <<"Mesh", 1>> >>, <<2>>),
      Topo(<< <<"Mesh", 0>>, <<"Mesh", 1>> >>, <<1, 2>>),
      Topo(<< <<"Mesh", 0>>, <<"Mesh", 0>> >>, <<1, 2>>),
      Topo(<< <<"InstancedMesh", 0>>, <<"Mesh", 0>> >>, <<1, 2>>),
      Topo(<< <<"Mesh", 0>>, <<"InstancedMesh", 1>> >>, <<1, 2>>),
      Topo(<< <<"TransformNode", 0>>, <<"Mesh", 1>>, <<"Mesh", 1>> >>, <<2, 3>>),
      Topo(<< <<"TransformNode", 0>>, <<"Mesh", 1>>, <<"Mesh", 0>> >>, <<2, 3>>),
      Topo(<< <<"TransformNode", 0>>, <<"TransformNode", 1>>, <<"Mesh", 2>> >>, <<3>>) }

RECURSIVE NodeSeqs(_, _)
NodeSeqs(n, k) ==
    IF k = 0 THEN { <<>> }
    ELSE { Append(s, x) : s \in NodeSeqs(n, k - 1), x \in NodeOptions(n[k][1], n[k][2]) }

ErrorFile == [ok |-> FALSE, meshes |-> <<>>, nodes |-> <<>>]
FilesOf(t) == { [ok |-> TRUE, meshes |-> t.meshes, nodes |-> ns] : ns \in NodeSeqs(t.n, Len(t.n)) }
AllFiles == {ErrorFile} \cup UNION { FilesOf(t) : t \in Topologies }

\* The files the two scenes are exercised with: a missing file, a file
\* without meshes, a glTF-style root mesh with one child, a wrapped mesh.
SceneFiles ==
    { ErrorFile,
      [ok |-> TRUE, meshes |-> <<>>, nodes |-> <<>>],
      [ok |-> TRUE, meshes |-> <<1, 2>>,
       nodes |-> << MkNode("Mesh", 0, Zero, Zero, One, Zero),
                    MkNode("Mesh", 1, V3i(-1, 0, -1), V3i(1, 2, 1), One, Zero) >>],
      [ok |-> TRUE, meshes |-> <<2>>,
       nodes |-> << MkNode("TransformNode", 0, Zero, Zero, V3i(2, 2, 2), Zero),
                    MkNode("Mesh", 1, Zero, V3(Q(1, 2), Q(1, 10), Q(1, 2)), One, Zero) >>] }

\* ---------------------------------------------------------------- requests
Req(name, position, rotation, targetSize) ==
    [name |-> name, position |-> position, rotation |-> rotation, targetSize |-> targetSize]

\* Promise.all([...]) of AssetTestScene
AssetTestRequests ==
    << Req("Recurve Bow", V3i(-4, 1, 0), "none", Q(5, 2)),
       Req("Arrow", V3i(0, 1, 0), "none", Q(5, 1)),
       Req("Target", V3i(4, 1, 0), "none", Q(3, 1)) >>

\* Promise.all([...]) of ArcheryGameScene
GameRequests ==
    << Req("Recurve Bow", V3i(0, 0, 0), "0,0,0", Q(4, 5)),
       Req("Target", V3(Q(0, 1), Q(3, 2), Q(12, 1)), "0,PI/2,0", Q(4, 1)) >>

\* loadAsset called on its own, targetSize defaulting to 2
SingleRequests ==
    { <<Req("Asset", V3i(4, 1, 0), "0,PI/2,0", Q(t, 1))>> : t \in {2, 5} }

\* ------------------------------------------------------------------- state
VARIABLES
    sceneKind,        \* which component: "AssetTest" or "Game"
    requests,         \* the loadAsset calls the effect makes
    files,            \* what the loader will find for each request
    phase,            \* "rendered" (effect not run), "mounted", "unmounted"
    loading,          \* useState(true)
    loadedAssets,     \* useState<string[]>([])
    loader,           \* state of each ImportMeshAsync promise
    task,             \* state of each loadAsset promise
    results,          \* value each loadAsset promise fulfilled with (0: null)
    nodes,            \* scene nodes imported for each request
    writes,           \* property assignments each loadAsset made, in order
    thenRan,          \* the Promise.all(...).then callback has run
    listening,        \* handleResize is subscribed to window 'resize'
    engineDisposed,   \* engine.dispose() was called
    resizeEvents,     \* window resize events dispatched so far
    engineResizes,    \* engine.resize() calls so far
    resizedDisposed   \* engine.resize() was called on a disposed engine

vars == <<sceneKind, requests, files, phase, loading, loadedAssets, loader, task,
          results, nodes, writes, thenRan, listening, engineDisposed,
          resizeEvents, engineResizes, resizedDisposed>>

env == <<sceneKind, requests, files>>

Tasks == DOMAIN requests

InitState ==
    /\ phase = "rendered"
    /\ loading = TRUE
    /\ loadedAssets = <<>>
    /\ loader = [i \in Tasks |-> "none"]
    /\ task = [i \in Tasks |-> "none"]
    /\ results = [i \in Tasks |-> 0]
    /\ nodes = [i \in Tasks |-> <<>>]
    /\ writes = [i \in Tasks |-> <<>>]
    /\ thenRan = FALSE
    /\ listening = FALSE
    /\ engineDisposed = FALSE
    /\ resizeEvents = 0
    /\ engineResizes = 0
    /\ resizedDisposed = FALSE

\* The two scene components as written, over the scene files.
Init ==
    /\ sceneKind \in {"AssetTest", "Game"}
    /\ requests = IF sceneKind = "AssetTest" THEN AssetTestRequests ELSE GameRequests
    /\ files \in [DOMAIN requests -> SceneFiles]
    /\ InitState

\* One loadAsset call with arbitrary file contents and target size.
PlaceInit ==
    /\ sceneKind \in {"AssetTest", "Game"}
    /\ requests \in SingleRequests
    /\ files \in [DOMAIN requests -> AllFiles]
    /\ InitState

\* ----------------------------------------------------------------- actions
\* useEffect body.  The canvas is rendered unconditionally by the component,
\* so canvasRef.current is set when the effect runs.  Each loadAsset call
\* runs synchronously up to its await of SceneLoader.ImportMeshAsync.
Mount ==
    /\ phase = "rendered"
    /\ phase' = "mounted"
    /\ loader' = [i \in Tasks |-> "pending"]
    /\ task' = [i \in Tasks |-> "pending"]
    /\ listening' = TRUE
    /\ UNCHANGED <<env, loading, loadedAssets, results, nodes, writes, thenRan,
                   engineDisposed, resizeEvents, engineResizes, resizedDisposed>>

\* SceneLoader.ImportMeshAsync settles: the imported nodes join the scene,
\* or the promise rejects.
LoaderSettles(i) ==
    /\ i \in Tasks
    /\ loader[i] = "pending"
    /\ loader' = [loader EXCEPT ![i] = IF files[i].ok THEN "fulfilled" ELSE "rejected"]
    /\ nodes' = [nodes EXCEPT ![i] = files[i].nodes]
    /\ UNCHANGED <<env, phase, loading, loadedAssets, task, results, writes, thenRan,
                   listening, engineDisposed, resizeEvents, engineResizes, resizedDisposed>>

\* What loadAsset returns: AssetTestScene returns nothing; ArcheryGameScene
\* returns rootMesh after a placement and null otherwise.
ReturnValue(kind, ns, resultMeshes) ==
    IF kind = "Game" /\ Placed(ns, resultMeshes) THEN rootMesh(ns, resultMeshes) ELSE 0

\* loadAsset resumes after the await and runs to its end.
LoadAssetContinue(i) ==
    /\ i \in Tasks
    /\ task[i] = "pending"
    /\ loader[i] \in {"fulfilled", "rejected"}
    /\ task' = [task EXCEPT ![i] = TaskOutcome(loader[i])]
    /\ IF loader[i] = "fulfilled"
       THEN \E ws \in {PlacementWrites(sceneKind, requests[i], nodes[i], files[i].meshes)} :
               /\ writes' = [writes EXCEPT ![i] = ws]
               /\ nodes' = [nodes EXCEPT ![i] = ApplyWrites(nodes[i], ws)]
               /\ loadedAssets' = AppendName(loadedAssets, requests[i].name,
                                             Placed(nodes[i], files[i].meshes))
               /\ results' = [results EXCEPT ![i] = ReturnValue(sceneKind, nodes[i], files[i].meshes)]
       ELSE UNCHANGED <<writes, nodes, loadedAssets, results>>
    /\ UNCHANGED <<env, phase, loading, loader, thenRan, listening, engineDisposed,
                   resizeEvents, engineResizes, resizedDisposed>>

\* Product of the scalings from node id up to its topmost ancestor.
RECURSIVE absoluteScaling(_, _)
absoluteScaling(ns, id) ==
    IF ns[id].parent = 0 THEN ns[id].scaling
    ELSE VMul(ns[id].scaling, absoluteScaling(ns, ns[id].parent))

CameraNode == MkNode("Camera", 0, Zero, Zero, One, V3(Q(0, 1), Q(8, 5), Q(0, 1)))

\* bowRef.setParent(camera) keeps the bow's world scale under the unscaled
\* camera; position and rotation are then overwritten.
BowToCamera(ns, bow) ==
    LET cam == Len(ns) + 1
        withCam == Append(ns, CameraNode)
    IN [withCam EXCEPT ![bow] =
          [@ EXCEPT !.parent = cam,
                    !.scaling = absoluteScaling(ns, bow),
                    !.position = V3(Q(0, 1), Q(-1, 5), Q(6, 5)),
                    !.rotation = "0,PI/12,PI/2"]]

\* Promise.all([...]).then(...)
AllThen ==
    /\ phase # "rendered"
    /\ ~thenRan
    /\ PromiseAllFulfilled(task)
    /\ thenRan' = TRUE
    /\ loading' = FALSE
    /\ nodes' = IF sceneKind = "Game" /\ results[1] # 0 /\ IsMesh(nodes[1][results[1]])
                THEN [nodes EXCEPT ![1] = BowToCamera(nodes[1], results[1])]
                ELSE nodes
    /\ UNCHANGED <<env, phase, loadedAssets, loader, task, results, writes, listening,
                   engineDisposed, resizeEvents, engineResizes, resizedDisposed>>

\* The browser dispatches a resize event; handleResize runs if subscribed.
WindowResize ==
    /\ resizeEvents < MaxResize
    /\ resizeEvents' = resizeEvents + 1
    /\ IF listening
       THEN /\ engineResizes' = engineResizes + 1
            /\ resizedDisposed' = (resizedDisposed \/ engineDisposed)
       ELSE UNCHANGED <<engineResizes, resizedDisposed>>
    /\ UNCHANGED <<env, phase, loading, loadedAssets, loader, task, results, nodes,
                   writes, thenRan, listening, engineDisposed>>

\* The effect's cleanup function.
Unmount ==
    /\ phase = "mounted"
    /\ phase' = "unmounted"
    /\ listening' = CleanupListening
    /\ engineDisposed' = TRUE
    /\ UNCHANGED <<env, loading, loadedAssets, loader, task, results, nodes, writes,
                   thenRan, resizeEvents, engineResizes, resizedDisposed>>

Next ==
    \/ Mount
    \/ \E i \in Tasks : LoaderSettles(i)
    \/ \E i \in Tasks : LoadAssetContinue(i)
    \/ AllThen
    \/ WindowResize
    \/ Unmount

Spec == Init /\ [][Next]_vars

\* A single loadAsset call followed to the end of the join.
PlaceNext ==
    \/ Mount
    \/ \E i \in Tasks : LoaderSettles(i)
    \/ \E i \in Tasks : LoadAssetContinue(i)
    \/ AllThen

PlaceSpec == PlaceInit /\ [][PlaceNext]_vars

\* The steps the event loop takes on its own: settled promises run their
\* continuations, and every issued load settles.
Progress ==
    \/ Mount
    \/ \E i \in Tasks : LoaderSettles(i)
    \/ \E i \in Tasks : LoadAssetContinue(i)
    \/ AllThen

Fairness == WF_vars(Progress)

LiveSpec == Init /\ [][Next]_vars /\ Fairness

\* A file whose only mesh has no extent: its union bounding box has size
\* (0,0,0), so currentSize is 0.
DegenerateFile ==
    [ok |-> TRUE, meshes |-> <<1>>,
     nodes |-> << MkNode("Mesh", 0, Zero, Zero, One, Zero) >>]

\* The two scenes with at least one request resolving to the degenerate file.
DegenerateInit ==
    /\ sceneKind \in {"AssetTest", "Game"}
    /\ requests = IF sceneKind = "AssetTest" THEN AssetTestRequests ELSE GameRequests
    /\ files \in [DOMAIN requests -> SceneFiles \cup {DegenerateFile}]
    /\ \E i \in DOMAIN requests : files[i] = DegenerateFile
    /\ InitState

DegenerateSpec == DegenerateInit /\ [][Next]_vars /\ Fairness

TypeOK ==
    /\ phase \in {"rendered", "mounted", "unmounted"}
    /\ loading \in BOOLEAN
    /\ \A i \in Tasks : loader[i] \in {"none", "pending", "fulfilled", "rejected"}
    /\ \A i \in Tasks : task[i] \in {"none", "pending", "fulfilled", "rejected"}

\* ------------------------------------------------------------- properties
Range(f) == { f[k] : k \in DOMAIN f }

\* Task i has the loader's nodes in the scene and has not yet resumed.
Imported(i) == loader[i] = "fulfilled" /\ task[i] = "pending"

\* Task i ran the placement branch of loadAsset.
PlacedTask(i) ==
    /\ task[i] = "fulfilled" /\ loader[i] = "fulfilled"
    /\ Placed(files[i].nodes, files[i].meshes)

MeshList(i) == FilterMeshes(files[i].nodes, files[i].meshes)

\* bb is the component-wise union of the world boxes of ms, stated without
\* reference to the order of traversal.
IsUnionBox(ns, ms, bb) ==
    \A a \in 1..3 :
        /\ \A k \in 1..Len(ms) : ~RLess(minimumWorld(ns, ms[k])[a], bb.min[a])
        /\ \E k \in 1..Len(ms) : minimumWorld(ns, ms[k])[a] = bb.min[a]
        /\ \A k \in 1..Len(ms) : ~RLess(bb.max[a], maximumWorld(ns, ms[k])[a])
        /\ \E k \in 1..Len(ms) : maximumWorld(ns, ms[k])[a] = bb.max[a]
        /\ RAdd(bb.min[a], bb.size[a]) = bb.max[a]

\* C1: for every non-empty list of mesh nodes handed to getBoundingBox, min is
\* the component-wise minimum of the nodes' world minimum corners, max the
\* component-wise maximum of their world maximum corners, and size = max - min.
C1_UnionBoundingBox ==
    \A i \in Tasks :
        (Imported(i) /\ Len(MeshList(i)) > 0) =>
            LET bb == getBoundingBox(nodes[i], MeshList(i))
            IN ~bb.isNull /\ IsUnionBox(nodes[i], MeshList(i), bb)

\* A list of two meshes whose union differs from the first mesh's box in
\* both corners.
C1_Witness ==
    \E i \in Tasks :
        /\ Imported(i) /\ Len(MeshList(i)) = 2
        /\ LET bb == getBoundingBox(nodes[i], MeshList(i))
           IN /\ bb.min # minimumWorld(nodes[i], MeshList(i)[1])
              /\ bb.max # maximumWorld(nodes[i], MeshList(i)[1])
              /\ bb.min # minimumWorld(nodes[i], MeshList(i)[2])

\* The union box loadAsset measured for task i, before any write.
MeasuredBox(i) == getBoundingBox(files[i].nodes, MeshList(i))

ScalingWrites(i) == SelectSeq(writes[i], LAMBDA w : w.prop = "scaling")

\* C2: whenever the measured currentSize is positive, the scale written is
\* uniform and equals targetSize / currentSize; the box (-1,0,-1)..(1,2,1)
\* with targetSize 2 gives 1, the box (0,0,0)..(0.5,0.1,0.5) with targetSize 5
\* gives 10.
C2_ScaleFactor ==
    \A i \in Tasks :
        (PlacedTask(i) /\ RLess(Int2Q(0), currentSize(MeasuredBox(i)))) =>
            /\ Len(ScalingWrites(i)) = 1
            /\ LET v == ScalingWrites(i)[1].val
                   bb == MeasuredBox(i)
                   T == requests[i].targetSize
               IN /\ v[1] = v[2] /\ v[2] = v[3]
                  /\ IsFinite(v[1])
                  /\ (~thenRan => nodes[i][ScalingWrites(i)[1].node].scaling = v)
                  /\ RMul(v[1], currentSize(bb)) = T
                  /\ (bb.min = V3i(-1, 0, -1) /\ bb.max = V3i(1, 2, 1) /\ T = Int2Q(2))
                        => v[1] = Int2Q(1)
                  /\ (bb.min = Zero /\ bb.max = V3(Q(1, 2), Q(1, 10), Q(1, 2)) /\ T = Int2Q(5))
                        => v[1] = Int2Q(10)

\* The second concrete scenario has been placed.
C2_Witness ==
    \E i \in Tasks :
        /\ PlacedTask(i)
        /\ MeasuredBox(i).min = Zero
        /\ MeasuredBox(i).max = V3(Q(1, 2), Q(1, 10), Q(1, 2))
        /\ requests[i].targetSize = Int2Q(5)
        /\ ScalingWrites(i)[1].val = V3i(10, 10, 10)

\* C3: after loadAsset has written the scale, the largest dimension of the
\* asset's world-space union bounding box equals targetSize, whatever scale
\* the chosen node and its ancestors carried before the write.
C3_PostScaleEqualsTarget ==
    \A i \in Tasks :
        (PlacedTask(i) /\ ~thenRan /\ RLess(Int2Q(0), currentSize(MeasuredBox(i)))) =>
            currentSize(getBoundingBox(nodes[i], MeshList(i))) = requests[i].targetSize

\* Indices of result.meshes whose node has no parent.
Parentless(i) ==
    { k \in 1..Len(files[i].meshes) : files[i].nodes[files[i].meshes[k]].parent = 0 }

HasWrite(i, node, prop, val) ==
    \E k \in 1..Len(writes[i]) : writes[i][k] = Wr(node, prop, val)

\* C4: if exactly one node of result.meshes has no parent, that node receives
\* the scale and the position; if every node has a parent, the first node is
\* the root and the transform goes to it or to its parent by the parenting rule.
C4_RootSelection ==
    \A i \in Tasks :
        PlacedTask(i) =>
            LET ns == files[i].nodes
                rm == files[i].meshes
                pos == requests[i].position
            IN /\ Cardinality(Parentless(i)) = 1 =>
                    LET r == rm[CHOOSE k \in Parentless(i) : TRUE]
                    IN /\ \A k \in 1..Len(writes[i]) : writes[i][k].node = r
                       /\ Len(ScalingWrites(i)) = 1
                       /\ HasWrite(i, r, "position", pos)
               /\ Parentless(i) = {} =>
                    LET r == rm[1]
                        par == ns[r].parent
                    IN /\ \A k \in 1..Len(writes[i]) : writes[i][k].node \in {r, par}
                       /\ Len(ScalingWrites(i)) = 1
                       /\ ScalingWrites(i)[1].node = IF HasScaling(ns[par]) THEN par ELSE r
                       /\ IF HasPosition(ns[par])
                          THEN HasWrite(i, par, "position", pos)
                          ELSE HasWrite(i, r, "position", pos)
                               /\ \A k \in 1..Len(writes[i]) : writes[i][k].node = r

\* A placed asset whose only parentless node is not first in result.meshes.
C4_Witness ==
    \E i \in Tasks :
        /\ PlacedTask(i)
        /\ Cardinality(Parentless(i)) = 1
        /\ 1 \notin Parentless(i)
        /\ HasWrite(i, files[i].meshes[2], "position", requests[i].position)

\* The loader succeeded for task i but produced no Mesh instance.
NoUsableMesh(i) ==
    /\ files[i].ok
    /\ \A k \in 1..Len(files[i].meshes) : files[i].nodes[files[i].meshes[k]].kind # "Mesh"

\* C8: when the loader succeeds with zero usable mesh nodes, loadAsset writes
\* no scale, position or rotation to any node and appends nothing to the
\* loaded-assets list.
C8_EmptyGeometryNoOp ==
    \A i \in Tasks :
        (NoUsableMesh(i) /\ task[i] = "fulfilled") =>
            /\ writes[i] = <<>>
            /\ nodes[i] = files[i].nodes
            /\ requests[i].name \notin Range(loadedAssets)

\* A load that returned only a non-Mesh node has run to its end.
C8_Witness ==
    \E i \in Tasks :
        /\ NoUsableMesh(i) /\ Len(files[i].meshes) > 0
        /\ task[i] = "fulfilled" /\ loader[i] = "fulfilled"

\* Nodes whose last position assignment by loadAsset i carries the requested
\* position.
PositionReceivers(i) ==
    { n \in 1..Len(files[i].nodes) :
        \E k \in 1..Len(writes[i]) :
            /\ writes[i][k] = Wr(n, "position", requests[i].position)
            /\ \A j \in (k + 1)..Len(writes[i]) :
                  ~(writes[i][j].node = n /\ writes[i][j].prop = "position") }

\* C10: the node that receives the position is the node that received the
\* scale, for every combination of transform properties the parent exposes;
\* and when the position went to the parent, the root's own position is the
\* origin afterwards.
C10_SameTarget ==
    \A i \in Tasks :
        (PlacedTask(i) /\ ~thenRan /\ requests[i].position # Zero) =>
            LET root == rootMesh(files[i].nodes, files[i].meshes)
                par == files[i].nodes[root].parent
            IN /\ Len(ScalingWrites(i)) = 1
               /\ PositionReceivers(i) = {ScalingWrites(i)[1].node}
               /\ ScalingWrites(i)[1].node \in {root, par}
               /\ (par # 0 /\ par \in PositionReceivers(i)) => nodes[i][root].position = Zero

\* The file behind request i loads and holds at least one Mesh instance.
Loadable(i) ==
    /\ files[i].ok
    /\ \E k \in 1..Len(files[i].meshes) : files[i].nodes[files[i].meshes[k]].kind = "Mesh"

\* The loads have been issued and the loader will fail for one of them.
PartialFailure == phase # "rendered" /\ \E i \in Tasks : ~files[i].ok

AllSuccessfulListed ==
    \A j \in Tasks : Loadable(j) => requests[j].name \in Range(loadedAssets)

\* C5: when the loads are issued together and the loader fails for one of
\* them, then (every load settling) the names of all the assets that load
\* successfully eventually appear in the list and loading becomes false.
C5_PartialFailure == PartialFailure ~> (loading = FALSE /\ AllSuccessfulListed)

\* One load failed, another was listed, and the loading flag is cleared.
C5_Witness ==
    /\ loading = FALSE
    /\ \E i \in Tasks : loader[i] = "rejected"
    /\ \E j \in Tasks : Loadable(j) /\ requests[j].name \in Range(loadedAssets)

\* C6: whenever the loading flag is false, every load task the scene issued
\* has settled; the flag is never cleared while a load awaits the loader.
C6_LoadingClearedAfterAll ==
    (loading = FALSE) =>
        \A i \in Tasks : loader[i] \in {"fulfilled", "rejected"} /\ task[i] # "pending"

\* The flag is cleared with one load failed and one returned empty.
C6_Witness ==
    /\ loading = FALSE
    /\ \E i \in Tasks : loader[i] = "rejected"
    /\ \E i \in Tasks : loader[i] = "fulfilled" /\ files[i].meshes = <<>>

\* C7: every name in the loaded-assets list belongs to an asset whose load
\* succeeded and whose placement completed; the name of a failed load is never
\* appended, and no error propagates out of loadAsset.
C7_OnlyPlacedListed ==
    /\ \A k \in 1..Len(loadedAssets) :
          \E i \in Tasks :
              /\ requests[i].name = loadedAssets[k]
              /\ files[i].ok /\ loader[i] = "fulfilled" /\ task[i] = "fulfilled"
              /\ HasWrite(i, rootMesh(files[i].nodes, files[i].meshes), "position",
                          IF files[i].nodes[rootMesh(files[i].nodes, files[i].meshes)].parent = 0
                          THEN requests[i].position ELSE Zero)
    /\ \A i \in Tasks : ~files[i].ok => requests[i].name \notin Range(loadedAssets)
    /\ \A i \in Tasks : task[i] # "rejected"

\* A failed load has run through its catch while another asset is listed.
C7_Witness ==
    /\ \E i \in Tasks : loader[i] = "rejected" /\ task[i] = "fulfilled"
    /\ loadedAssets # <<>>

\* C9: a resize event while mounted resizes the live engine; after teardown
\* the handler is unsubscribed and the engine disposed, and a resize event
\* no longer reaches engine.resize().
C9_ResizeLifecycle ==
    [][ (resizeEvents' # resizeEvents) =>
          /\ phase = "mounted" =>
                /\ engineResizes' = engineResizes + 1
                /\ ~engineDisposed /\ ~resizedDisposed'
          /\ phase = "unmounted" =>
                /\ ~listening /\ engineDisposed
                /\ engineResizes' = engineResizes /\ ~resizedDisposed' ]_vars

\* A resize reached the engine while mounted and another came after teardown.
C9_Witness ==
    /\ phase = "unmounted"
    /\ engineResizes > 0
    /\ resizeEvents > engineResizes

\* Task i completes its placement in this step.
CompletesPlacement(i) ==
    /\ task[i] = "pending" /\ task'[i] = "fulfilled"
    /\ loader[i] = "fulfilled" /\ Loadable(i)

\* C11: the loaded-assets list is in completion order: the step in which an
\* asset completes its placement puts its name after the names of all assets
\* that completed earlier, whatever the request order, and no other step
\* changes the list.
C11_CompletionOrder ==
    [][ /\ \A i \in Tasks :
              CompletesPlacement(i) => loadedAssets' = Append(loadedAssets, requests[i].name)
        /\ (\A i \in Tasks : ~CompletesPlacement(i)) => loadedAssets' = loadedAssets ]_vars

\* The second request completed first and is listed before the first request.
C11_Witness ==
    /\ Len(loadedAssets) >= 2
    /\ loadedAssets[1] = requests[2].name
    /\ loadedAssets[2] = requests[1].name

\* The asset of task i is a single mesh without extent, so the union
\* bounding box loadAsset measures has size (0,0,0).
Degenerate(i) ==
    /\ Loadable(i) /\ Len(files[i].meshes) = 1
    /\ files[i].nodes[files[i].meshes[1]].bmin = files[i].nodes[files[i].meshes[1]].bmax

Infinity == [n |-> 1, d |-> 0]

\* C12: when an asset's union bounding box has size (0,0,0), the division
\* raises no error (the factor written is Infinity on all axes): that load
\* still settles and is placed, the other loads are unaffected, and the
\* loading flag becomes false once all loads have settled.
C12_DegenerateSettles ==
    (phase # "rendered" /\ \E i \in Tasks : Degenerate(i)) ~>
        /\ loading = FALSE
        /\ \A j \in Tasks : task[j] = "fulfilled"
        /\ AllSuccessfulListed
        /\ \A i \in Tasks :
              Degenerate(i) =>
                  /\ Len(ScalingWrites(i)) = 1
                  /\ ScalingWrites(i)[1].val = V3(Infinity, Infinity, Infinity)

\* A degenerate asset and an ordinary one are both listed, join done.
C12_Witness ==
    /\ loading = FALSE
    /\ \E i \in Tasks : Degenerate(i) /\ requests[i].name \in Range(loadedAssets)
    /\ \E j \in Tasks :
          /\ Loadable(j) /\ ~Degenerate(j)
          /\ requests[j].name \in Range(loadedAssets)

\* The loads that ran loadAsset's placement branch to its end.
CompletedPlacements ==
    { i \in Tasks : task[i] = "fulfilled" /\ loader[i] = "fulfilled" /\ Loadable(i) }

\* C13: within one mount, once the loading flag is false the loaded-assets
\* list never changes again; each requested name occurs in it at most once and
\* its length is the number of loads that completed placement.
C13_ListFinalAfterLoading ==
    /\ [][ (loading = FALSE) => loadedAssets' = loadedAssets ]_vars
    /\ [] /\ \A j, k \in 1..Len(loadedAssets) : loadedAssets[j] = loadedAssets[k] => j = k
          /\ Len(loadedAssets) = Cardinality(CompletedPlacements)

\* The flag is cleared with two assets listed and a third load failed, and
\* the scene has been torn down afterwards.
C13_Witness ==
    /\ loading = FALSE
    /\ Len(loadedAssets) = 2
    /\ \E i \in Tasks : loader[i] = "rejected"
    /\ phase = "unmounted"
====
